---- MODULE Spec2Model ----
(***************************************************************************)
(* Model of the curriculum agent (src/curriculum_agent.py) and of the HTTP *)
(* layer in front of it (src/api.py).                                      *)
(*                                                                         *)
(* Python str values are TLA+ strings; the str methods the code uses       *)
(* (lower, title, replace, strip, split, startswith, endswith, in, slices, *)
(* f-string concatenation) are defined below character by character.       *)
(***************************************************************************)
EXTENDS Integers, Sequences, FiniteSets, TLC

(***************************************************************************)
(* Python str operations                                                   *)
(***************************************************************************)

\* s[i-1] in Python: the i-th character, as a one-character string.
CharAt(s, i) == SubSeq(s, i, i)

UpperLetters == "ABCDEFGHIJKLMNOPQRSTUVWXYZ"
LowerLetters == "abcdefghijklmnopqrstuvwxyz"

IsUpper(c) == \E i \in 1..26 : CharAt(UpperLetters, i) = c
IsLower(c) == \E i \in 1..26 : CharAt(LowerLetters, i) = c
IsLetter(c) == IsUpper(c) \/ IsLower(c)

LowerChar(c) ==
  IF IsUpper(c)
    THEN CharAt(LowerLetters, CHOOSE i \in 1..26 : CharAt(UpperLetters, i) = c)
    ELSE c

UpperChar(c) ==
  IF IsLower(c)
    THEN CharAt(UpperLetters, CHOOSE i \in 1..26 : CharAt(LowerLetters, i) = c)
    ELSE c

\* str.lower()
RECURSIVE Lower(_)
Lower(s) == IF s = "" THEN "" ELSE LowerChar(CharAt(s, 1)) \o Lower(Tail(s))

\* str.title(): a letter that follows a non-letter is upper-cased, every
\* other letter is lower-cased.
RECURSIVE TitleFrom(_, _)
TitleFrom(s, prevIsLetter) ==
  IF s = "" THEN ""
  ELSE LET c == CharAt(s, 1)
       IN (IF prevIsLetter THEN LowerChar(c) ELSE UpperChar(c))
            \o TitleFrom(Tail(s), IsLetter(c))

Title(s) == TitleFrom(s, FALSE)

\* s.startswith(p), s.endswith(p), p in s
StartsWith(s, p) == Len(p) <= Len(s) /\ SubSeq(s, 1, Len(p)) = p
EndsWith(s, p) == Len(p) <= Len(s) /\ SubSeq(s, Len(s) - Len(p) + 1, Len(s)) = p
Contains(s, p) ==
  \E i \in 1..(Len(s) - Len(p) + 1) : SubSeq(s, i, i + Len(p) - 1) = p

\* str.replace(old, new) for a non-empty old: non-overlapping occurrences,
\* left to right.
RECURSIVE Replace(_, _, _)
Replace(s, old, new) ==
  IF Len(s) < Len(old) THEN s
  ELSE IF StartsWith(s, old)
    THEN new \o Replace(SubSeq(s, Len(old) + 1, Len(s)), old, new)
    ELSE CharAt(s, 1) \o Replace(Tail(s), old, new)

IsSpace(c) == c \in {" ", "\n", "\t", "\r"}

\* str.strip()
Strip(s) ==
  LET n == Len(s)
      Kept(i) == ~IsSpace(CharAt(s, i))
  IN IF \A i \in 1..n : ~Kept(i) THEN ""
     ELSE SubSeq(s, CHOOSE i \in 1..n : Kept(i) /\ \A j \in 1..(i - 1) : ~Kept(j),
                    CHOOSE i \in 1..n : Kept(i) /\ \A j \in (i + 1)..n : ~Kept(j))

\* s[n:] and s[:-n]
DropFirst(s, n) == SubSeq(s, n + 1, Len(s))
DropLast(s, n) == SubSeq(s, 1, Len(s) - n)

\* s.split('\n'): the sequence of lines.
SplitLines(s) ==
  LET cuts == {0, Len(s) + 1} \cup {i \in 1..Len(s) : CharAt(s, i) = "\n"}
      nth(k) == CHOOSE p \in cuts : Cardinality({q \in cuts : q < p}) = k - 1
  IN [k \in 1..(Cardinality(cuts) - 1) |-> SubSeq(s, nth(k) + 1, nth(k + 1) - 1)]

\* Code-point order of the characters that occur in scenario and language
\* names (sorted() compares strings by code point).
CodePointOrder == " -0123456789:ABCDEFGHIJKLMNOPQRSTUVWXYZ_abcdefghijklmnopqrstuvwxyz"

Ord(c) ==
  IF \E i \in 1..Len(CodePointOrder) : CharAt(CodePointOrder, i) = c
    THEN CHOOSE i \in 1..Len(CodePointOrder) : CharAt(CodePointOrder, i) = c
    ELSE Len(CodePointOrder) + 1

RECURSIVE StrLess(_, _)
StrLess(a, b) ==
  IF b = "" THEN FALSE
  ELSE IF a = "" THEN TRUE
  ELSE IF CharAt(a, 1) = CharAt(b, 1) THEN StrLess(Tail(a), Tail(b))
  ELSE Ord(CharAt(a, 1)) < Ord(CharAt(b, 1))

\* sorted(list(S)) for a set of strings
RECURSIVE Sorted(_)
Sorted(S) ==
  IF S = {} THEN <<>>
  ELSE LET m == CHOOSE x \in S : \A y \in S \ {x} : StrLess(x, y)
       IN <<m>> \o Sorted(S \ {m})

\* dict.get(k, default)
Get(d, k, default) == IF k \in DOMAIN d THEN d[k] ELSE default

EmptyDict == [k \in {} |-> ""]

knowledge_base ==
  [
    cafe_order |-> [
        French |-> [
            vocabulary |-> "bonjour, s'il vous plaît, merci, café, thé, eau, pain, croissant, combien, euros, commander, boire, manger, dessert, plat principal, entrée, addition, pourboire, spécialité, recommandation, allergie, végétarien, sans gluten, frais, bio, local, saisonnier, terroir, gastronomie",
            grammar |-> "Present tense, polite requests with 'je voudrais', questions with 'est-ce que', numbers, articles (le, la, les), negation with 'ne...pas', conditional tense for polite requests, relative pronouns, complex questions",
            interactions |-> "Greeting with 'bonjour', ordering with 'je voudrais', asking prices with 'combien', thanking with 'merci', detailed ordering, asking about ingredients, requesting modifications, asking for recommendations, discussing dietary restrictions, cultural conversation, expressing preferences",
            cultural_notes |-> "French cafes are social spaces. Say 'bonjour' when entering. Tipping is appreciated but not mandatory. French dining is leisurely. Lunch is typically 12-2 PM. Many cafes have outdoor seating. French cuisine emphasizes fresh, local ingredients. Wine is often served with meals."],
        Spanish |-> [
            vocabulary |-> "hola, por favor, gracias, café, té, agua, pan, churros, cuánto, euros, uno, dos, tres, pedir, beber, comer, postre, plato principal, entrada, cuenta, propina, especialidad",
            grammar |-> "Present tense with regular verbs, simple questions, numbers 1-20, articles (el, la, los, las), negation, polite requests with 'podría'",
            interactions |-> "Greeting with 'hola', ordering with 'quisiera', asking prices with 'cuánto', thanking with 'gracias', detailed ordering, asking about ingredients, requesting modifications",
            cultural_notes |-> "Spanish cafes serve tapas. Lunch is typically served from 2-4 PM. Coffee is often served with a small glass of water. Spanish dining is social and leisurely. Tapas are meant to be shared."]],
    hotel_checkin |-> [
        French |-> [
            vocabulary |-> "hôtel, chambre, réservation, nom, passeport, clé, étage, ascenseur, wifi, téléphone, réception, réceptionniste, confirmer, annuler, tarif, petit-déjeuner, service, chambre simple/double, équipement, climatisation, vue, calme, bruit, problème technique, maintenance, concierge",
            grammar |-> "Present tense of 'avoir' and 'être', basic questions, numbers, possessive adjectives, past tense (passé composé), polite requests, time expressions, future tense for plans, subjunctive mood, complex conditional sentences, formal register, passive voice",
            interactions |-> "Basic check-in process, providing personal information, asking for room key, simple requests, confirming reservations, asking about hotel services, requesting changes, discussing preferences, complaining professionally, requesting changes, discussing preferences, problem resolution",
            cultural_notes |-> "Check-in is usually after 3 PM. Many hotels require passport for registration. French hotels often include breakfast. Room service is common in higher-end hotels. French hotels emphasize service quality. Concierge services are common in luxury hotels."],
        Spanish |-> [
            vocabulary |-> "hotel, habitación, reserva, nombre, pasaporte, llave, piso, ascensor, wifi",
            grammar |-> "Present tense of 'tener' and 'ser', basic questions, numbers",
            interactions |-> "Basic check-in, providing information, asking for room key",
            cultural_notes |-> "Check-in typically starts at 2 PM. Spanish hotels often have siesta hours."]],
    shopping |-> [
        French |-> [
            vocabulary |-> "magasin, boutique, prix, cher, bon marché, taille, couleur, essayer, payer, carte, réduction, solde, marque, qualité, matière, style, mode, tendance, collection, artisanat, fait main, éthique, durable, vintage, exclusif, sur mesure, créateur",
            grammar |-> "Present tense, simple questions, numbers, basic adjectives, comparatives, superlatives, past tense, polite requests, complex conditionals, subjunctive, relative clauses, formal expressions",
            interactions |-> "Asking for items, checking prices, trying on clothes, basic payment, asking for discounts, discussing quality, comparing items, negotiating, discussing craftsmanship, ethical shopping, custom orders, cultural appreciation",
            cultural_notes |-> "French shopping is often in small boutiques. Sales happen in January and July. French fashion is world-renowned. Many shops close for lunch (12-2 PM). France values craftsmanship and quality over mass production."]]]

real_world_data ==
  [
    cafe_order |-> [
        French |-> [
            menu_items |-> "Café au lait (€3.50), Croissant (€1.20), Pain au chocolat (€1.30), Tarte Tatin (€4.50), Macaron (€2.00)",
            common_phrases |-> "Un café, s'il vous plaît. / L'addition, s'il vous plaît. / C'est combien? / Avez-vous du lait?",
            cultural_notes |-> "French cafes often have outdoor seating. Tipping is appreciated but not mandatory. Coffee is typically served in small cups."],
        Spanish |-> [
            menu_items |-> "Café con leche (€2.80), Churros (€3.50), Tortilla española (€8.00), Paella (€15.00), Tapas (€3-8)",
            common_phrases |-> "Un café, por favor. / La cuenta, por favor. / ¿Cuánto cuesta? / ¿Tienen leche?",
            cultural_notes |-> "Spanish cafes serve tapas. Lunch is typically served from 2-4 PM. Coffee is often served with a small glass of water."]],
    hotel_checkin |-> [
        French |-> [
            hotel_terms |-> "Chambre simple (€80), Chambre double (€120), Suite (€200), Petit-déjeuner inclus, Vue sur la ville",
            common_phrases |-> "J'ai une réservation. / Pouvez-vous confirmer ma chambre? / À quel étage? / L'ascenseur, s'il vous plaît.",
            cultural_notes |-> "Check-in is usually after 3 PM. Many hotels require passport for registration. French hotels emphasize service quality."],
        Spanish |-> [
            hotel_terms |-> "Habitación individual (€70), Habitación doble (€110), Suite (€180), Desayuno incluido, Vista a la ciudad",
            common_phrases |-> "Tengo una reserva. / ¿Puede confirmar mi habitación? / ¿En qué piso? / El ascensor, por favor.",
            cultural_notes |-> "Check-in typically starts at 2 PM. Spanish hotels often have siesta hours. Service is warm and personal."]]]

(***************************************************************************)
(* Knowledge base documents and their enumeration                          *)
(***************************************************************************)

\* The (scenario, language) pairs of the knowledge base.
KnowledgePairs ==
  {p \in (DOMAIN knowledge_base) \X {"French", "Spanish"} :
     p[2] \in DOMAIN knowledge_base[p[1]]}

\* A plausible slip: the underscore is kept in the name.
ScenarioName_KeepUnderscore(scenario) == Title(scenario)

\* scenario.replace('_', ' ').title(): the name a document gives its scenario.
ScenarioName(scenario) == Title(Replace(scenario, "_", " "))

\* The f-string of one document; every line of it is indented by 16 spaces.
DocIndent == "                "

doc_text(scenario, language) ==
  LET content == knowledge_base[scenario][language]
  IN "\n" \o
     DocIndent \o "Scenario: " \o ScenarioName(scenario) \o "\n" \o
     DocIndent \o "Target Language: " \o language \o "\n" \o
     DocIndent \o "\n" \o
     DocIndent \o "Vocabulary Focus: " \o content.vocabulary \o "\n" \o
     DocIndent \o "Grammar Focus: " \o content.grammar \o "\n" \o
     DocIndent \o "Interaction Patterns: " \o content.interactions \o "\n" \o
     DocIndent \o "Cultural Context: " \o content.cultural_notes \o "\n" \o
     DocIndent \o "\n" \o
     DocIndent \o "Teaching Guidelines:\n" \o
     DocIndent \o "- Use appropriate vocabulary for " \o language \o "\n" \o
     DocIndent \o "- Focus on " \o content.grammar \o " structures\n" \o
     DocIndent \o "- Emphasize " \o content.interactions \o " in "
               \o Replace(scenario, "_", " ") \o " context\n" \o
     DocIndent \o "- Include cultural notes: " \o content.cultural_notes \o "\n" \o
     DocIndent

\* self.index.docstore.docs: one document per knowledge-base pair.
_build_knowledge_index == [p \in KnowledgePairs |-> doc_text(p[1], p[2])]

\* The lines of a document whose stripped form starts with the marker, in
\* document order.
MarkerLines(text, marker) ==
  LET lines == SplitLines(text)
  IN {i \in 1..Len(lines) : StartsWith(Strip(lines[i]), marker)}

\* The name a document contributes for a marker, as a set of at most one
\* string: nothing without the marker, else the first marked line with the
\* marker removed, stripped.
Extracted(text, marker) ==
  IF Contains(text, marker) /\ MarkerLines(text, marker) # {}
    THEN LET first == CHOOSE i \in MarkerLines(text, marker) :
                        \A j \in MarkerLines(text, marker) : i <= j
         IN {Strip(Replace(SplitLines(text)[first], marker, ""))}
    ELSE {}

\* get_available_scenarios_and_languages(): <<scenarios_list, languages_list>>
get_available_scenarios_and_languages(docs) ==
  << Sorted(UNION {Extracted(docs[d], "Scenario:") : d \in DOMAIN docs}),
     Sorted(UNION {Extracted(docs[d], "Target Language:") : d \in DOMAIN docs}) >>

\* The two sequences the agent sees; the docstore never changes after it is
\* built, so every call returns this pair.
Available == get_available_scenarios_and_languages(_build_knowledge_index)

\* cache_key = f"{scenario}_{language}"
cache_key(scenario, language) == scenario \o "_" \o language

\* A plausible slip: only the pairs the knowledge base has are precomputed.
PrecomputePairs_KnowledgeOnly ==
  LET scenarios == Available[1]
      languages == Available[2]
      known == {<<ScenarioName(p[1]), p[2]>> : p \in KnowledgePairs}
      cross == [k \in 1..(Len(scenarios) * Len(languages)) |->
                  << scenarios[((k - 1) \div Len(languages)) + 1],
                     languages[((k - 1) % Len(languages)) + 1] >>]
  IN SelectSeq(cross, LAMBDA p : p \in known)

\* The pairs of the nested loops of _precompute_contexts, in loop order.
PrecomputePairs ==
  LET scenarios == Available[1]
      languages == Available[2]
  IN [k \in 1..(Len(scenarios) * Len(languages)) |->
        << scenarios[((k - 1) \div Len(languages)) + 1],
           languages[((k - 1) % Len(languages)) + 1] >>]

(***************************************************************************)
(* External services.  A call to one of them is a set of possible          *)
(* outcomes, each [raised, value].                                         *)
(***************************************************************************)

Raised == [raised |-> TRUE, value |-> ""]
Returned(v) == [raised |-> FALSE, value |-> v]

\* json.loads on the texts the generative model is taken to answer with:
\* [kind |-> "dict", fields |-> the object], [kind |-> "list"] for a JSON
\* array, [kind |-> "error"] for JSONDecodeError.
GoodCurriculumJson ==
  "{\"scenario_scene\": \"A busy cafe\", \"curriculum_questions\": [{\"question\": \"Q1\", \"expected_response\": \"R1\"}], \"correction_examples\": [{\"incorrect_phrase\": \"I1\", \"correct_phrase\": \"C1\", \"explanation\": \"E1\"}]}"

NoCorrectionsJson ==
  "{\"scenario_scene\": \"A busy cafe\", \"curriculum_questions\": [{\"question\": \"Q1\", \"expected_response\": \"R1\"}]}"

NoResponseKeyJson ==
  "{\"scenario_scene\": \"A busy cafe\", \"curriculum_questions\": [{\"question\": \"Q1\"}], \"correction_examples\": []}"

StructuredJson ==
  "{\"menu_items\": \"Espresso 2 EUR\", \"common_phrases\": \"Un cafe\", \"cultural_notes\": \"Pay at the bar\"}"

NoMenuJson ==
  "{\"common_phrases\": \"Un cafe\", \"cultural_notes\": \"Pay at the bar\"}"

ArrayJson == "[1, 2]"

JsonDict(f) == [kind |-> "dict", fields |-> f]

json_loads(text) ==
  CASE text = GoodCurriculumJson ->
         JsonDict([scenario_scene |-> "A busy cafe",
                   curriculum_questions |->
                     << [question |-> "Q1", expected_response |-> "R1"] >>,
                   correction_examples |->
                     << [incorrect_phrase |-> "I1", correct_phrase |-> "C1",
                         explanation |-> "E1"] >>])
    [] text = NoCorrectionsJson ->
         JsonDict([scenario_scene |-> "A busy cafe",
                   curriculum_questions |->
                     << [question |-> "Q1", expected_response |-> "R1"] >>])
    [] text = NoResponseKeyJson ->
         JsonDict([scenario_scene |-> "A busy cafe",
                   curriculum_questions |-> << [question |-> "Q1"] >>,
                   correction_examples |-> << >>])
    [] text = StructuredJson ->
         JsonDict([menu_items |-> "Espresso 2 EUR",
                   common_phrases |-> "Un cafe",
                   cultural_notes |-> "Pay at the bar"])
    [] text = NoMenuJson ->
         JsonDict([common_phrases |-> "Un cafe",
                   cultural_notes |-> "Pay at the bar"])
    [] text = ArrayJson -> [kind |-> "list", fields |-> EmptyDict]
    [] OTHER -> [kind |-> "error", fields |-> EmptyDict]

\* The Markdown code fence.  A TLA+ string cannot hold the grave accent, so
\* the apostrophe stands for it in every text of the generative model.
Fence == "'''"

\* The code-fence stripping applied to response.text before json.loads.
StripCodeFence(text) ==
  LET t0 == Strip(text)
      t1 == IF StartsWith(t0, Fence \o "json") THEN DropFirst(t0, 7) ELSE t0
      t2 == IF EndsWith(t1, Fence) THEN DropLast(t1, 3) ELSE t1
  IN Strip(t2)

\* model.generate_content(prompt) followed by response.text, for the
\* curriculum prompt: it raises or answers with one of these texts.
CurriculumTexts ==
  { Fence \o "json\n" \o GoodCurriculumJson \o "\n" \o Fence,
    GoodCurriculumJson,
    Fence \o "\n" \o GoodCurriculumJson \o "\n" \o Fence,
    "I cannot help with that.",
    Fence \o "json\n" \o NoCorrectionsJson \o "\n" \o Fence,
    NoResponseKeyJson,
    ArrayJson }

generate_content == {Raised} \cup {Returned(t) : t \in CurriculumTexts}

\* The same call for the structuring prompt of _parse_brightdata_response.
StructuringTexts ==
  { Fence \o "json\n" \o StructuredJson \o "\n" \o Fence, NoMenuJson, "No results.", ArrayJson }

generate_structuring == {Raised} \cup {Returned(t) : t \in StructuringTexts}

\* requests.get through the proxy: it raises (time-out included) or answers
\* with a status code and a body.
SearchBody == "<html>search results</html>"

requests_get ==
  { [raised |-> TRUE, status_code |-> 0, text |-> ""],
    [raised |-> FALSE, status_code |-> 200, text |-> SearchBody],
    [raised |-> FALSE, status_code |-> 200, text |-> ""],
    [raised |-> FALSE, status_code |-> 403, text |-> "Forbidden"] }

\* query_engine.query(query) of the semantic index, then str(response): it
\* raises, or answers with an empty or a non-empty text.  The text of an
\* answer is not a function of the query alone (the index synthesises it
\* with the language model), so the call site is part of it.
IndexAnswer(scenario, target_language, site) ==
  "Guidelines for " \o scenario \o " in " \o target_language \o " (" \o site \o ")"

_query_knowledge_base(scenario, target_language, site) ==
  { Raised, Returned(""), Returned(IndexAnswer(scenario, target_language, site)) }

(***************************************************************************)
(* Real-world data                                                         *)
(***************************************************************************)

\* _fetch_brightdata_api on one answer of requests.get: the body of a 200
\* answer, "" on every failure.
FetchResult(r) ==
  IF r.raised THEN "" ELSE IF r.status_code = 200 THEN r.text ELSE ""

_fetch_brightdata_api == { FetchResult(r) : r \in requests_get }

NotAvailable ==
  [menu_items |-> "N/A", common_phrases |-> "N/A", cultural_notes |-> "N/A"]

\* _parse_brightdata_response on one outcome of the structuring call: what
\* json.loads returned, or the "N/A" dict when the call or the parse raised.
ParseResult(g) ==
  IF g.raised THEN JsonDict(NotAvailable)
  ELSE LET parsed == json_loads(StripCodeFence(g.value))
       IN IF parsed.kind = "error" THEN JsonDict(NotAvailable) ELSE parsed

_parse_brightdata_response == { ParseResult(g) : g \in generate_structuring }

\* The text block both branches of _get_real_world_data format; indent is
\* the indentation of the f-string in the source.
RealWorldBlock(indent, scenario, target_language, data) ==
  "\n" \o
  indent \o "Real-world context for " \o scenario \o " in " \o target_language \o ":\n" \o
  indent \o "Menu/Terms: " \o Get(data, "menu_items", "N/A") \o "\n" \o
  indent \o "Common Phrases: " \o Get(data, "common_phrases", "N/A") \o "\n" \o
  indent \o "Cultural Notes: " \o Get(data, "cultural_notes", "N/A") \o "\n" \o
  indent

\* The mock branch.
MockRealWorld(scenario, target_language) ==
  LET scenario_key == Replace(Lower(scenario), " ", "_")
      language_data ==
        Get(Get(real_world_data, scenario_key, EmptyDict), target_language, EmptyDict)
  IN RealWorldBlock("        ", scenario, target_language, language_data)

\* A plausible slip: a failed fetch gives the "N/A" block at once.
LiveRealWorld_NoFallThrough(scenario, target_language, api_response, parsed_data) ==
  IF api_response # ""
    THEN IF parsed_data.kind = "dict"
           THEN Returned(RealWorldBlock(DocIndent, scenario, target_language,
                                        parsed_data.fields))
           ELSE Raised
    ELSE Returned(RealWorldBlock(DocIndent, scenario, target_language, NotAvailable))

\* The branch under the flag, given what the fetch returned and what the
\* parse would return.  A parsed answer that is not a dict has no .get, which
\* raises out of the method; an empty fetch result falls through to the
\* mock branch.
LiveRealWorld(scenario, target_language, api_response, parsed_data) ==
  IF api_response # ""
    THEN IF parsed_data.kind = "dict"
           THEN Returned(RealWorldBlock(DocIndent, scenario, target_language,
                                        parsed_data.fields))
           ELSE Raised
    ELSE Returned(MockRealWorld(scenario, target_language))

\* _get_real_world_data: the outcomes of one call under the flag.
_get_real_world_data(flag, scenario, target_language) ==
  IF flag
    THEN { LiveRealWorld(scenario, target_language, api_response, parsed_data)
             : api_response \in _fetch_brightdata_api,
               parsed_data \in _parse_brightdata_response }
    ELSE { Returned(MockRealWorld(scenario, target_language)) }

(***************************************************************************)
(* Curriculum generation                                                   *)
(***************************************************************************)

RequiredFields == {"scenario_scene", "curriculum_questions", "correction_examples"}

\* Lines 405-410: which scene the fallback describes.
SceneTemplate(scenario) ==
  IF Lower(scenario) = "cafe order" THEN "cafe"
  ELSE IF Lower(scenario) = "hotel check-in" THEN "hotel"
  ELSE "other"

\* A plausible slip: the language is matched without regard to case.
LanguageTemplate_AnyCase(target_language) ==
  IF Lower(target_language) = "french" THEN "French"
  ELSE IF Lower(target_language) = "spanish" THEN "Spanish"
  ELSE "generic"

\* Lines 413, 431, 449: which questions and corrections the fallback uses.
LanguageTemplate(target_language) ==
  IF target_language = "French" THEN "French"
  ELSE IF target_language = "Spanish" THEN "Spanish"
  ELSE "generic"

\* A plausible slip: the test is inverted.
OrdersCoffee_Inverted(scenario) == ~Contains(Lower(scenario), "cafe")

\* Lines 421 and 439: "cafe" in input_data.scenario.lower()
OrdersCoffee(scenario) == Contains(Lower(scenario), "cafe")

\* _create_fallback_curriculum(input_data)
_create_fallback_curriculum(scenario, target_language) ==
  LET scenario_scene ==
        CASE SceneTemplate(scenario) = "cafe" ->
               "You are in a charming " \o target_language
                 \o " café. The waiter approaches your table with a warm smile. Practice your "
                 \o target_language \o " skills."
          [] SceneTemplate(scenario) = "hotel" ->
               "You are at the reception desk of a " \o target_language
                 \o " hotel. The receptionist greets you. Practice your "
                 \o target_language \o " skills."
          [] OTHER ->
               "You are in a " \o Lower(scenario) \o " setting. Practice your "
                 \o target_language \o " skills."
      questions ==
        CASE LanguageTemplate(target_language) = "French" ->
               << [question |-> "How would you greet someone in this scenario?",
                   expected_response |-> "Bonjour, monsieur/madame"],
                  [question |-> "What would you like to order or request?",
                   expected_response |->
                     IF OrdersCoffee(scenario)
                       THEN "Je voudrais un café, s'il vous plaît"
                       ELSE "J'ai une réservation"] >>
          [] LanguageTemplate(target_language) = "Spanish" ->
               << [question |-> "How would you greet someone in this scenario?",
                   expected_response |-> "Hola, señor/señora"],
                  [question |-> "What would you like to order or request?",
                   expected_response |->
                     IF OrdersCoffee(scenario)
                       THEN "Quisiera un café, por favor"
                       ELSE "Tengo una reserva"] >>
          [] OTHER ->
               << [question |-> "How would you greet someone in this scenario?",
                   expected_response |->
                     "Use appropriate greetings for the context and language level."],
                  [question |-> "What would you like to order or request?",
                   expected_response |->
                     "Make a simple request using basic vocabulary and grammar."] >>
      corrections ==
        CASE LanguageTemplate(target_language) = "French" ->
               << [incorrect_phrase |-> "I want coffee",
                   correct_phrase |-> "Je voudrais un café",
                   explanation |-> "Use polite forms and proper articles in French"] >>
          [] LanguageTemplate(target_language) = "Spanish" ->
               << [incorrect_phrase |-> "I want coffee",
                   correct_phrase |-> "Quisiera un café",
                   explanation |-> "Use polite forms and proper articles in Spanish"] >>
          [] OTHER ->
               << [incorrect_phrase |-> "I want coffee",
                   correct_phrase |-> "Use polite forms in the target language",
                   explanation |->
                     "Use polite forms and proper articles in the target language."] >>
  IN [scenario_scene |-> scenario_scene,
      curriculum_questions |-> questions,
      correction_examples |-> corrections]

\* A cache is a Python dict: the sequence of its <<key, value>> items in
\* insertion order, no key twice.
CacheKeys(cache) == [i \in 1..Len(cache) |-> cache[i][1]]
CacheKeySet(cache) == {cache[i][1] : i \in 1..Len(cache)}

\* cache.get(key, "")
CacheGet(cache, key) ==
  IF key \in CacheKeySet(cache)
    THEN cache[CHOOSE i \in 1..Len(cache) : cache[i][1] = key][2]
    ELSE ""

\* cache[key] = value
CachePut(cache, key, value) ==
  IF key \in CacheKeySet(cache)
    THEN [i \in 1..Len(cache) |-> IF cache[i][1] = key THEN <<key, value>> ELSE cache[i]]
    ELSE Append(cache, <<key, value>>)

\* The answers the external services usually give; any other outcome of a
\* call is a fault, and the faults of a run are bounded by MaxFaults.
UsualKnowledge(scenario, language, site) ==
  Returned(IndexAnswer(scenario, language, site))

UsualRealWorld(flag, scenario, language) ==
  IF flag
    THEN Returned(RealWorldBlock(DocIndent, scenario, language,
                                 json_loads(StructuredJson).fields))
    ELSE Returned(MockRealWorld(scenario, language))

UsualCurriculum == Returned(Fence \o "json\n" \o GoodCurriculumJson \o "\n" \o Fence)

Fault(outcome, usual) == IF outcome = usual THEN 0 ELSE 1

\* What one half of the context resolution did: the context it produced, how
\* often it called its source, whether that call raised.
FromCache(v) == [raised |-> FALSE, value |-> v, calls |-> 0, faults |-> 0]
OnDemand(o, usual) ==
  [raised |-> o.raised, value |-> o.value, calls |-> 1, faults |-> Fault(o, usual)]

\* A plausible slip: the index is queried whatever the cache holds.
ResolveKnowledge_AlwaysQuery(kcache, scenario, target_language) ==
  { OnDemand(o, UsualKnowledge(scenario, target_language, "on demand"))
      : o \in _query_knowledge_base(scenario, target_language, "on demand") }

\* Lines 336-339: the cached value unless it is missing or empty.
ResolveKnowledge(kcache, scenario, target_language) ==
  LET knowledge_context == CacheGet(kcache, cache_key(scenario, target_language))
  IN IF knowledge_context # ""
       THEN { FromCache(knowledge_context) }
       ELSE { OnDemand(o, UsualKnowledge(scenario, target_language, "on demand"))
                : o \in _query_knowledge_base(scenario, target_language, "on demand") }

\* Lines 342-345.
ResolveRealWorld(rcache, flag, scenario, target_language) ==
  LET real_world_context == CacheGet(rcache, cache_key(scenario, target_language))
  IN IF real_world_context # ""
       THEN { FromCache(real_world_context) }
       ELSE { OnDemand(o, UsualRealWorld(flag, scenario, target_language))
                : o \in _get_real_world_data(flag, scenario, target_language) }

\* Lines 383-396, the body of the try block: one call of the generative
\* model, the stripping, the parse and the construction of CurriculumOutput,
\* for every outcome of the call.  It raises when the call raises, when the
\* text does not parse, and when the parsed value is not a dict with the
\* three required fields.
TryGenerate ==
  { LET parsed == IF g.raised THEN [kind |-> "error", fields |-> EmptyDict]
                  ELSE json_loads(StripCodeFence(g.value))
        valid == parsed.kind = "dict" /\ RequiredFields \subseteq DOMAIN parsed.fields
    IN [raised |-> ~valid,
        error |-> IF valid THEN ""
                  ELSE IF ~g.raised /\ parsed.kind = "error" THEN "JSONDecodeError"
                  ELSE "Exception",
        value |-> IF valid THEN [f \in RequiredFields |-> parsed.fields[f]]
                  ELSE EmptyDict,
        generated |-> g,
        faults |-> Fault(g, UsualCurriculum)]
    : g \in generate_content }

\* A plausible slip: the except clause names json.JSONDecodeError only.
GenerateOrFallback_DecodeErrorOnly(scenario, target_language) ==
  LET fallback == _create_fallback_curriculum(scenario, target_language)
  IN { LET caught == t.raised /\ t.error = "JSONDecodeError"
       IN [raised |-> t.raised /\ ~caught,
           output |-> IF caught THEN fallback ELSE t.value,
           fell_back |-> caught,
           generate_calls |-> 1,
           generated |-> t.generated,
           faults |-> t.faults]
       : t \in TryGenerate }

\* A plausible slip: the call is repeated once before the fallback is used.
GenerateOrFallback_Retry(scenario, target_language) ==
  LET fallback == _create_fallback_curriculum(scenario, target_language)
  IN { [raised |-> FALSE,
        output |-> IF t.raised THEN fallback ELSE t.value,
        fell_back |-> t.raised,
        generate_calls |-> IF t.raised THEN 2 ELSE 1,
        generated |-> t.generated,
        faults |-> t.faults]
       : t \in TryGenerate }

\* Lines 381-399: the try block under its except clause, which catches every
\* exception and returns the fallback.
GenerateOrFallback(scenario, target_language) ==
  LET fallback == _create_fallback_curriculum(scenario, target_language)
  IN { [raised |-> FALSE,
        output |-> IF t.raised THEN fallback ELSE t.value,
        fell_back |-> t.raised,
        generate_calls |-> 1,
        generated |-> t.generated,
        faults |-> t.faults]
       : t \in TryGenerate }

\* What a request did besides answering: the calls it made to the index, to
\* the real-world source and to the generative model, the contexts its
\* prompt embedded, what the generative model answered, whether the fallback
\* was used, and which context resolution raised.
NoAnswer == [raised |-> FALSE, value |-> ""]

NoTrace ==
  [query_calls |-> 0, real_world_calls |-> 0, generate_calls |-> 0,
   prompted |-> FALSE, knowledge_context |-> "", real_world_context |-> "",
   generated |-> NoAnswer, fell_back |-> FALSE, failure |-> "none"]

\* generate_curriculum(input_data): the possible runs, each
\* [raised, output, trace, faults].  The prompt is the template of lines
\* 348-379 around the two contexts, so the trace keeps the contexts.
generate_curriculum(kcache, rcache, flag, scenario, target_language) ==
  UNION {
    IF k.raised
      THEN { [raised |-> TRUE, output |-> EmptyDict, faults |-> k.faults,
              trace |-> [NoTrace EXCEPT !.query_calls = k.calls,
                                        !.failure = "knowledge"]] }
      ELSE UNION {
        IF r.raised
          THEN { [raised |-> TRUE, output |-> EmptyDict,
                  faults |-> k.faults + r.faults,
                  trace |-> [NoTrace EXCEPT !.query_calls = k.calls,
                                            !.real_world_calls = r.calls,
                                            !.failure = "real_world"]] }
          ELSE { [raised |-> g.raised,
                  output |-> g.output,
                  faults |-> k.faults + r.faults + g.faults,
                  trace |-> [query_calls |-> k.calls,
                             real_world_calls |-> r.calls,
                             generate_calls |-> g.generate_calls,
                             prompted |-> TRUE,
                             knowledge_context |-> k.value,
                             real_world_context |-> r.value,
                             generated |-> g.generated,
                             fell_back |-> g.fell_back,
                             failure |-> IF g.raised THEN "generation" ELSE "none"]]
                 : g \in GenerateOrFallback(scenario, target_language) }
        : r \in ResolveRealWorld(rcache, flag, scenario, target_language) }
    : k \in ResolveKnowledge(kcache, scenario, target_language) }

\* A plausible slip: the test of the hit rate is inverted.
get_cache_stats_Inverted(kcache, rcache) ==
  [knowledge_cache_size |-> Len(kcache),
   real_world_cache_size |-> Len(rcache),
   cached_combinations |-> CacheKeys(kcache),
   cache_hit_rate |-> IF Len(kcache) > 0 THEN "0%" ELSE "100%"]

\* get_cache_stats()
get_cache_stats(kcache, rcache) ==
  [knowledge_cache_size |-> Len(kcache),
   real_world_cache_size |-> Len(rcache),
   cached_combinations |-> CacheKeys(kcache),
   cache_hit_rate |-> IF Len(kcache) > 0 THEN "100%" ELSE "0%"]

(***************************************************************************)
(* State                                                                   *)
(***************************************************************************)

VARIABLES
  bright_data,       \* the module flag of curriculum_agent.py
  pc,                \* "import": api.py is about to construct the agent;
                     \* "precompute": __init__ is inside _precompute_contexts;
                     \* "serving": the module is loaded, requests are handled
  agent,             \* the module global of api.py: "unbound", "agent", "None"
  constructions,     \* how often LlamaCurriculumAgent() has been called
  next_pair,         \* position of the loops of _precompute_contexts
  knowledge_cache,   \* self.knowledge_cache
  real_world_cache,  \* self.real_world_cache
  warnings,          \* the warnings _precompute_contexts has printed
  faults,            \* start-up calls that did not give their usual answer
  last               \* the request being answered and its response

vars == << bright_data, pc, agent, constructions, next_pair, knowledge_cache,
           real_world_cache, warnings, faults, last >>

\* At most this many calls to external services give an unusual answer
\* (raise, empty answer, failed fetch, unparsable text) during start-up and
\* one request together.
MaxFaults == 1

\* The scenario and target_language values of requests.
RequestScenarios == {"", "Cafe Order", "Hotel Check-in", "Cafe"}
RequestLanguages == {"", "French", "Spanish", "french", "Order_French"}

NoRequest ==
  [endpoint |-> "", scenario |-> "", target_language |-> "", status |-> 0,
   body |-> EmptyDict, trace |-> NoTrace]

Response(endpoint, status, body) ==
  [NoRequest EXCEPT !.endpoint = endpoint, !.status = status, !.body = body]

Init ==
  /\ bright_data \in BOOLEAN
  /\ pc = "import"
  /\ agent = "unbound"
  /\ constructions = 0
  /\ next_pair = 0
  /\ knowledge_cache = << >>
  /\ real_world_cache = << >>
  /\ warnings = << >>
  /\ faults = 0
  /\ last = NoRequest

(***************************************************************************)
(* Start-up: api.py lines 28-33 running LlamaCurriculumAgent.__init__      *)
(***************************************************************************)

\* __init__ raises before the caches exist (the GoogleGenAI client or the
\* index cannot be built); api.py catches it and binds agent to None.
ConstructFails ==
  /\ pc = "import"
  /\ constructions' = constructions + 1
  /\ agent' = "None"
  /\ pc' = "serving"
  /\ UNCHANGED << bright_data, next_pair, knowledge_cache, real_world_cache,
                  warnings, faults, last >>

\* __init__ up to the call of _precompute_contexts: client and index built,
\* both caches set to {}.
ConstructBegins ==
  /\ pc = "import"
  /\ constructions' = constructions + 1
  /\ knowledge_cache' = << >>
  /\ real_world_cache' = << >>
  /\ next_pair' = 1
  /\ pc' = "precompute"
  /\ UNCHANGED << bright_data, agent, warnings, faults, last >>

\* A plausible slip: nothing is stored when the call raised.
Precomputed_SkipOnRaise(cache, key, outcome) ==
  IF outcome.raised THEN cache ELSE CachePut(cache, key, outcome.value)

\* A plausible slip: a placeholder is stored when the call raised.
Precomputed_Placeholder(cache, key, outcome) ==
  CachePut(cache, key, IF outcome.raised THEN "N/A" ELSE outcome.value)

\* Lines 166-171 and 174-179: the cache after one try/except of the loop
\* body; the value the call returned, the empty string when it raised.
Precomputed(cache, key, outcome) ==
  CachePut(cache, key, IF outcome.raised THEN "" ELSE outcome.value)

\* One iteration of the loops of _precompute_contexts (lines 160-179).
PrecomputePair ==
  /\ pc = "precompute"
  /\ next_pair \in 1..Len(PrecomputePairs)
  /\ LET scenario == PrecomputePairs[next_pair][1]
         language == PrecomputePairs[next_pair][2]
         key == cache_key(scenario, language)
     IN \E k \in _query_knowledge_base(scenario, language, "precompute"),
           r \in _get_real_world_data(bright_data, scenario, language) :
          /\ faults' = faults
                         + Fault(k, UsualKnowledge(scenario, language, "precompute"))
                         + Fault(r, UsualRealWorld(bright_data, scenario, language))
          /\ faults' <= MaxFaults
          /\ knowledge_cache' = Precomputed(knowledge_cache, key, k)
          /\ real_world_cache' = Precomputed(real_world_cache, key, r)
          /\ warnings' =
               warnings
                 \o (IF k.raised
                       THEN << "Warning: Could not pre-compute knowledge for " \o key >>
                       ELSE << >>)
                 \o (IF r.raised
                       THEN << "Warning: Could not pre-compute real-world data for " \o key >>
                       ELSE << >>)
  /\ next_pair' = next_pair + 1
  /\ UNCHANGED << bright_data, pc, agent, constructions, last >>

\* The loops are over: _precompute_contexts and __init__ return and api.py
\* binds the agent.
ConstructReturns ==
  /\ pc = "precompute"
  /\ next_pair = Len(PrecomputePairs) + 1
  /\ agent' = "agent"
  /\ pc' = "serving"
  /\ UNCHANGED << bright_data, constructions, next_pair, knowledge_cache,
                  real_world_cache, warnings, faults, last >>

(***************************************************************************)
(* Requests: the handlers of api.py                                        *)
(***************************************************************************)

Unavailable == [detail |-> "Curriculum agent is not available."]

\* A plausible slip: cache_stats is read without the `if agent` guard, so
\* the handler raises when the generator is unavailable.
Health_Unguarded ==
  /\ pc = "serving"
  /\ last = NoRequest
  /\ \E path \in {"/", "/health"} :
       last' = IF agent = "None"
                 THEN Response(path, 500, [detail |-> "Internal Server Error"])
                 ELSE Response(path, 200,
                        [status |-> "healthy",
                         message |-> "Language Learning Curriculum API is running",
                         agent_available |-> TRUE,
                         cache_stats |-> get_cache_stats(knowledge_cache, real_world_cache)])
  /\ UNCHANGED << bright_data, pc, agent, constructions, next_pair,
                  knowledge_cache, real_world_cache, warnings, faults >>

\* GET / and GET /health
Health ==
  /\ pc = "serving"
  /\ last = NoRequest
  /\ \E path \in {"/", "/health"} :
       last' = Response(path, 200,
                 [status |-> "healthy",
                  message |-> "Language Learning Curriculum API is running",
                  agent_available |-> (agent # "None"),
                  cache_stats |-> IF agent # "None"
                                    THEN get_cache_stats(knowledge_cache, real_world_cache)
                                    ELSE EmptyDict])
  /\ UNCHANGED << bright_data, pc, agent, constructions, next_pair,
                  knowledge_cache, real_world_cache, warnings, faults >>

\* GET /available-scenarios
AvailableScenarios ==
  /\ pc = "serving"
  /\ last = NoRequest
  /\ last' = IF agent = "None"
               THEN Response("/available-scenarios", 503, Unavailable)
               ELSE Response("/available-scenarios", 200,
                      [scenarios |-> Available[1], languages |-> Available[2]])
  /\ UNCHANGED << bright_data, pc, agent, constructions, next_pair,
                  knowledge_cache, real_world_cache, warnings, faults >>

\* GET /cache-stats
CacheStats ==
  /\ pc = "serving"
  /\ last = NoRequest
  /\ last' = IF agent = "None"
               THEN Response("/cache-stats", 503, Unavailable)
               ELSE Response("/cache-stats", 200,
                      get_cache_stats(knowledge_cache, real_world_cache))
  /\ UNCHANGED << bright_data, pc, agent, constructions, next_pair,
                  knowledge_cache, real_world_cache, warnings, faults >>

\* GET /test; whether GOOGLE_API_KEY is set is the environment's choice.
Test ==
  /\ pc = "serving"
  /\ last = NoRequest
  /\ \E api_key_set \in BOOLEAN :
       last' = Response("/test", 200,
                 [message |-> "API is working!",
                  agent_available |-> (agent # "None"),
                  api_key_set |-> api_key_set])
  /\ UNCHANGED << bright_data, pc, agent, constructions, next_pair,
                  knowledge_cache, real_world_cache, warnings, faults >>

\* Lines 155-170 of api.py: the response built from a CurriculumOutput; a
\* missing key raises KeyError.
Convertible(output) ==
  /\ RequiredFields \subseteq DOMAIN output
  /\ \A i \in 1..Len(output.curriculum_questions) :
       {"question", "expected_response"} \subseteq DOMAIN output.curriculum_questions[i]
  /\ \A i \in 1..Len(output.correction_examples) :
       {"incorrect_phrase", "correct_phrase", "explanation"}
         \subseteq DOMAIN output.correction_examples[i]

\* A plausible slip: the items are passed on without reading their keys.
CurriculumResponse_Unchecked(run) ==
  IF ~run.raised
    THEN [status |-> 200, body |-> run.output]
    ELSE [status |-> 500, body |-> [detail |-> "Error generating curriculum"]]

\* The response of POST /generate-curriculum to one run of the agent.
CurriculumResponse(run) ==
  IF ~run.raised /\ Convertible(run.output)
    THEN [status |-> 200, body |-> run.output]
    ELSE [status |-> 500, body |-> [detail |-> "Error generating curriculum"]]

\* A plausible slip: only the scenario is validated.
generate_curriculum_endpoint_ScenarioOnly(scenario, target_language) ==
  LET request == [NoRequest EXCEPT !.endpoint = "/generate-curriculum",
                                   !.scenario = scenario,
                                   !.target_language = target_language]
  IN IF agent = "None"
       THEN { [request EXCEPT !.status = 503, !.body = Unavailable] }
     ELSE IF scenario = ""
       THEN { [request EXCEPT !.status = 400,
                 !.body = [detail |-> "Both target_language and scenario are required"]] }
     ELSE { [request EXCEPT !.status = CurriculumResponse(run).status,
                            !.body = CurriculumResponse(run).body,
                            !.trace = run.trace]
            : run \in { u \in generate_curriculum(knowledge_cache, real_world_cache,
                                                   bright_data, scenario, target_language)
                          : faults + u.faults <= MaxFaults } }

\* A plausible slip: the body is validated before the availability check.
generate_curriculum_endpoint_ValidateFirst(scenario, target_language) ==
  LET request == [NoRequest EXCEPT !.endpoint = "/generate-curriculum",
                                   !.scenario = scenario,
                                   !.target_language = target_language]
  IN IF target_language = "" \/ scenario = ""
       THEN { [request EXCEPT !.status = 400,
                 !.body = [detail |-> "Both target_language and scenario are required"]] }
     ELSE IF agent = "None"
       THEN { [request EXCEPT !.status = 503, !.body = Unavailable] }
     ELSE { [request EXCEPT !.status = CurriculumResponse(run).status,
                            !.body = CurriculumResponse(run).body,
                            !.trace = run.trace]
            : run \in { u \in generate_curriculum(knowledge_cache, real_world_cache,
                                                   bright_data, scenario, target_language)
                          : faults + u.faults <= MaxFaults } }

\* The handler of POST /generate-curriculum on one request body: the
\* responses it can give.
generate_curriculum_endpoint(scenario, target_language) ==
  LET request == [NoRequest EXCEPT !.endpoint = "/generate-curriculum",
                                   !.scenario = scenario,
                                   !.target_language = target_language]
  IN IF agent = "None"
       THEN { [request EXCEPT !.status = 503, !.body = Unavailable] }
     ELSE IF target_language = "" \/ scenario = ""
       THEN { [request EXCEPT !.status = 400,
                 !.body = [detail |-> "Both target_language and scenario are required"]] }
     ELSE { [request EXCEPT !.status = CurriculumResponse(run).status,
                            !.body = CurriculumResponse(run).body,
                            !.trace = run.trace]
            : run \in { u \in generate_curriculum(knowledge_cache, real_world_cache,
                                                   bright_data, scenario, target_language)
                          : faults + u.faults <= MaxFaults } }

\* A plausible slip: the context computed after a miss is stored.
GenerateCurriculum_WriteBack ==
  /\ pc = "serving"
  /\ last = NoRequest
  /\ \E scenario \in RequestScenarios, target_language \in RequestLanguages :
       \E response \in generate_curriculum_endpoint(scenario, target_language) :
         /\ last' = response
         /\ knowledge_cache' =
              IF response.trace.prompted /\ response.trace.query_calls = 1
                THEN CachePut(knowledge_cache, cache_key(scenario, target_language),
                              response.trace.knowledge_context)
                ELSE knowledge_cache
  /\ UNCHANGED << bright_data, pc, agent, constructions, next_pair,
                  real_world_cache, warnings, faults >>

\* POST /generate-curriculum
GenerateCurriculum ==
  /\ pc = "serving"
  /\ last = NoRequest
  /\ \E scenario \in RequestScenarios, target_language \in RequestLanguages :
       last' \in generate_curriculum_endpoint(scenario, target_language)
  /\ UNCHANGED << bright_data, pc, agent, constructions, next_pair,
                  knowledge_cache, real_world_cache, warnings, faults >>

\* The framework sends the response; the next request can be handled.
Respond ==
  /\ pc = "serving"
  /\ last # NoRequest
  /\ last' = NoRequest
  /\ UNCHANGED << bright_data, pc, agent, constructions, next_pair,
                  knowledge_cache, real_world_cache, warnings, faults >>

Next ==
  \/ ConstructFails
  \/ ConstructBegins
  \/ PrecomputePair
  \/ ConstructReturns
  \/ Health
  \/ AvailableScenarios
  \/ CacheStats
  \/ Test
  \/ GenerateCurriculum
  \/ Respond

Spec == Init /\ [][Next]_vars

(***************************************************************************)
(* The real-world source called directly                                   *)
(***************************************************************************)

\* The inputs of the direct calls: the pairs start-up calls the method with.
RealWorldScenarios == {Available[1][i] : i \in 1..Len(Available[1])}
RealWorldLanguages == {Available[2][i] : i \in 1..Len(Available[2])}

\* No search request was made.
NoFetch == [raised |-> FALSE, status_code |-> 0, text |-> ""]

\* _parse_brightdata_response, tabulated over the outcomes of the
\* structuring call.
ParseTable == [g \in generate_structuring \cup {NoAnswer} |-> ParseResult(g)]

\* One call of _get_real_world_data when requests.get answers r and the
\* structuring call, if it is reached, ends in g: what the call returned or
\* that it raised, with the two answers it was given.
RealWorldCall(scenario, target_language, r, g) ==
  LET outcome ==
        IF bright_data
          THEN LiveRealWorld(scenario, target_language, FetchResult(r), ParseTable[g])
          ELSE Returned(MockRealWorld(scenario, target_language))
  IN [raised |-> outcome.raised, value |-> outcome.value,
      search |-> r, structuring |-> g]

\* A plausible slip: the block is memoised in one slot that is not keyed by
\* the pair, so a call that follows another call returns the earlier block.
CallRealWorldData_Memo ==
  /\ pc = "serving"
  /\ agent = "agent"
  /\ last = NoRequest \/ (~bright_data /\ last.endpoint = "_get_real_world_data")
  /\ \E scenario \in RealWorldScenarios, target_language \in RealWorldLanguages :
       \E r \in IF bright_data THEN requests_get ELSE {NoFetch} :
         \E g \in IF bright_data /\ FetchResult(r) # ""
                     THEN generate_structuring ELSE {NoAnswer} :
           LET call == RealWorldCall(scenario, target_language, r, g)
           IN /\ faults + Fault([raised |-> call.raised, value |-> call.value],
                                 UsualRealWorld(bright_data, scenario, target_language))
                   <= MaxFaults
              /\ last' = [NoRequest EXCEPT !.endpoint = "_get_real_world_data",
                                           !.scenario = scenario,
                                           !.target_language = target_language,
                                           !.body = IF last = NoRequest
                                                      THEN call
                                                      ELSE [call EXCEPT !.value = last.body.value]]
  /\ UNCHANGED << bright_data, pc, agent, constructions, next_pair,
                  knowledge_cache, real_world_cache, warnings, faults >>

\* agent._get_real_world_data(scenario, target_language), called on the
\* constructed agent outside a request.  Without the flag a call can follow
\* another call directly, so that the blocks of the two can be compared.
CallRealWorldData ==
  /\ pc = "serving"
  /\ agent = "agent"
  /\ last = NoRequest \/ (~bright_data /\ last.endpoint = "_get_real_world_data")
  /\ \E scenario \in RealWorldScenarios, target_language \in RealWorldLanguages :
       \E r \in IF bright_data THEN requests_get ELSE {NoFetch} :
         \E g \in IF bright_data /\ FetchResult(r) # ""
                     THEN generate_structuring ELSE {NoAnswer} :
           LET call == RealWorldCall(scenario, target_language, r, g)
           IN /\ faults + Fault([raised |-> call.raised, value |-> call.value],
                                 UsualRealWorld(bright_data, scenario, target_language))
                   <= MaxFaults
              /\ last' = [NoRequest EXCEPT !.endpoint = "_get_real_world_data",
                                           !.scenario = scenario,
                                           !.target_language = target_language,
                                           !.body = call]
  /\ UNCHANGED << bright_data, pc, agent, constructions, next_pair,
                  knowledge_cache, real_world_cache, warnings, faults >>

NextRealWorld ==
  \/ Next
  \/ CallRealWorldData

SpecRealWorld == Init /\ [][NextRealWorld]_vars

(***************************************************************************)
(* Properties                                                              *)
(***************************************************************************)

Range(seq) == {seq[i] : i \in 1..Len(seq)}

\* The keys of the cross-product of the scenarios and languages enumerated
\* at start-up.
KeySpace == {cache_key(s, l) : s \in Range(Available[1]), l \in Range(Available[2])}

\* The agent was constructed: start-up is over and succeeded.
Constructed == pc = "serving" /\ agent = "agent"

\* The response in `last` answers a request that agent.generate_curriculum
\* was called for.
Generated == last.endpoint = "/generate-curriculum" /\ last.status \in {200, 500}

RequestKey == cache_key(last.scenario, last.target_language)
CachedKnowledge == CacheGet(knowledge_cache, RequestKey)
CachedRealWorld == CacheGet(real_world_cache, RequestKey)

InCrossProduct ==
  last.scenario \in Range(Available[1]) /\ last.target_language \in Range(Available[2])

CacheValues(cache) == {cache[i][2] : i \in 1..Len(cache)} \ {""}

KnowledgeWarning(key) == "Warning: Could not pre-compute knowledge for " \o key
RealWorldWarning(key) == "Warning: Could not pre-compute real-world data for " \o key

\* The keys of the pairs of the knowledge base, each scenario under the
\* name its document gives it.
KnownKeys == {cache_key(ScenarioName(p[1]), p[2]) : p \in KnowledgePairs}

\* C1: once the agent is constructed, both caches hold an entry under the
\* key of every (scenario, language) pair of the knowledge base, the
\* scenario under the name its document gives it, whichever start-up calls
\* failed.
C1_KnownPairsCached ==
  Constructed =>
    \A key \in KnownKeys :
      /\ key \in CacheKeySet(knowledge_cache)
      /\ key \in CacheKeySet(real_world_cache)

\* The agent is constructed although the knowledge query of a
\* knowledge-base pair raised during start-up.
C1_Witness ==
  /\ Constructed
  /\ \E key \in KnownKeys : KnowledgeWarning(key) \in Range(warnings)

\* C2: in every state after start-up the key set of each cache is exactly
\* the cross-product of the enumerated scenarios and languages.
C2_KeySpaceExact ==
  Constructed =>
    /\ CacheKeySet(knowledge_cache) = KeySpace
    /\ CacheKeySet(real_world_cache) = KeySpace

\* After start-up a request for a pair outside the cross-product has been
\* answered with a curriculum.
C2_Witness ==
  Constructed /\ Generated /\ last.status = 200 /\ ~InCrossProduct

\* C3 as stated: a request outside the cross-product misses both caches and
\* calls both the index and the real-world source.
C3_Original ==
  (Generated /\ ~InCrossProduct) =>
    /\ RequestKey \notin CacheKeySet(knowledge_cache)
    /\ RequestKey \notin CacheKeySet(real_world_cache)
    /\ last.trace.query_calls = 1
    /\ last.trace.real_world_calls = 1

\* C3 amended: a request outside the cross-product misses both caches and
\* calls the index; it calls the real-world source too unless the index
\* query raised, in which case the request fails before the real-world
\* lookup; a context its prompt embeds is never a cached entry.
C3_OutsideComputedOnDemand ==
  (Generated /\ ~InCrossProduct) =>
    /\ RequestKey \notin CacheKeySet(knowledge_cache)
    /\ RequestKey \notin CacheKeySet(real_world_cache)
    /\ last.trace.query_calls = 1
    /\ IF last.trace.failure = "knowledge"
         THEN last.trace.real_world_calls = 0 /\ last.status = 500
         ELSE last.trace.real_world_calls = 1
    /\ last.trace.prompted =>
         /\ last.trace.knowledge_context \notin CacheValues(knowledge_cache)
         /\ last.trace.real_world_context \notin CacheValues(real_world_cache)

\* A request outside the cross-product whose name contains the separator
\* was answered from contexts computed on demand.
C3_Witness ==
  /\ Generated /\ ~InCrossProduct
  /\ last.target_language = "Order_French"
  /\ last.trace.prompted
  /\ last.trace.query_calls = 1 /\ last.trace.real_world_calls = 1

\* C4: once start-up has finished no step changes either cache.
C4_CachesFrozen ==
  [][pc = "serving" =>
       /\ knowledge_cache' = knowledge_cache
       /\ real_world_cache' = real_world_cache]_vars

\* A miss was answered with a knowledge context computed on demand, and the
\* cache still has no entry for the request.
C4_Witness ==
  /\ Constructed /\ Generated
  /\ last.trace.prompted /\ last.trace.query_calls = 1
  /\ last.trace.knowledge_context # ""
  /\ RequestKey \notin CacheKeySet(knowledge_cache)

\* C5: a start-up call that raised left the empty string for its half under
\* its pair's key, the other half of that pair has an entry all the same,
\* and once start-up is over the agent is constructed with an entry for
\* every pair in both caches.
C5_PrecomputeFailureTolerated ==
  /\ \A key \in KeySpace :
       /\ KnowledgeWarning(key) \in Range(warnings) =>
            /\ key \in CacheKeySet(knowledge_cache)
            /\ CacheGet(knowledge_cache, key) = ""
            /\ key \in CacheKeySet(real_world_cache)
       /\ RealWorldWarning(key) \in Range(warnings) =>
            /\ key \in CacheKeySet(real_world_cache)
            /\ CacheGet(real_world_cache, key) = ""
            /\ key \in CacheKeySet(knowledge_cache)
  /\ (pc = "serving" /\ warnings # << >>) =>
       /\ agent = "agent"
       /\ Len(knowledge_cache) = Len(PrecomputePairs)
       /\ Len(real_world_cache) = Len(PrecomputePairs)
  /\ Range(warnings) \subseteq
       {KnowledgeWarning(key) : key \in KeySpace}
         \cup {RealWorldWarning(key) : key \in KeySpace}

\* The agent is constructed although the real-world computation of the
\* first pair raised; the pairs after it were processed.
C5_Witness ==
  /\ Constructed
  /\ RealWorldWarning(cache_key(PrecomputePairs[1][1], PrecomputePairs[1][2]))
       \in Range(warnings)
  /\ Len(real_world_cache) = Len(PrecomputePairs)

\* C6 as stated: with both cached values non-empty the prompt embeds them
\* and no source is called; each half is computed on demand exactly when
\* its cached value is absent or empty.
C6_Original ==
  Generated =>
    /\ (CachedKnowledge # "" /\ CachedRealWorld # "") =>
         /\ last.trace.query_calls = 0 /\ last.trace.real_world_calls = 0
         /\ last.trace.prompted
         /\ last.trace.knowledge_context = CachedKnowledge
         /\ last.trace.real_world_context = CachedRealWorld
    /\ (last.trace.query_calls = 1) <=> (CachedKnowledge = "")
    /\ (last.trace.real_world_calls = 1) <=> (CachedRealWorld = "")

\* C6 amended: with both cached values non-empty the prompt embeds them and
\* no source is called; the knowledge half is computed on demand exactly
\* when its cached value is absent or empty, the real-world half exactly
\* when its cached value is absent or empty and the knowledge resolution
\* before it did not raise.
C6_CacheHitAvoidsCalls ==
  Generated =>
    /\ (CachedKnowledge # "" /\ CachedRealWorld # "") =>
         /\ last.trace.query_calls = 0 /\ last.trace.real_world_calls = 0
         /\ last.trace.prompted
         /\ last.trace.knowledge_context = CachedKnowledge
         /\ last.trace.real_world_context = CachedRealWorld
    /\ last.trace.query_calls \in {0, 1}
    /\ last.trace.real_world_calls \in {0, 1}
    /\ (last.trace.query_calls = 1) <=> (CachedKnowledge = "")
    /\ (last.trace.real_world_calls = 1) <=>
         (CachedRealWorld = "" /\ last.trace.failure # "knowledge")

\* A request was answered from two non-empty cached values.
C6_Witness ==
  /\ Generated /\ last.status = 200
  /\ CachedKnowledge # "" /\ CachedRealWorld # ""
  /\ last.trace.knowledge_context = CachedKnowledge
  /\ last.trace.query_calls = 0

\* What the generative model answered the request in `last`, parsed.
ParsedTexts ==
  [g \in generate_content \cup {NoAnswer} |-> json_loads(StripCodeFence(g.value))]

ParsedAnswer == ParsedTexts[last.trace.generated]

\* The three failures C7 names.
GenerationFailed ==
  /\ Generated
  /\ last.trace.generate_calls >= 1
  /\ \/ last.trace.generated.raised
     \/ LET parsed == ParsedAnswer
        IN \/ parsed.kind = "error"
           \/ /\ parsed.kind = "dict"
              /\ ~(RequiredFields \subseteq DOMAIN parsed.fields)

\* C7: when the generative call raises, or its text is not JSON after the
\* fence stripping, or the JSON lacks a required field, the request is
\* answered, without an exception, with the fallback curriculum of its
\* scenario and target language.
C7_FailureGivesFallback ==
  GenerationFailed =>
    /\ last.status = 200
    /\ last.trace.failure = "none"
    /\ last.trace.fell_back
    /\ last.body = _create_fallback_curriculum(last.scenario, last.target_language)

\* The generative call raised and the request was answered.
C7_Witness ==
  GenerationFailed /\ last.trace.generated.raised /\ last.status = 200

\* C8: a request calls the generative model for the curriculum at most once,
\* exactly once when it ends in the fallback, and the agent is constructed
\* at most once, exactly once when start-up is over.
C8_NoRetry ==
  /\ last.trace.generate_calls <= 1
  /\ last.trace.fell_back => last.trace.generate_calls = 1
  /\ constructions <= 1
  /\ pc = "serving" => constructions = 1

\* A request ended in the fallback after unparsable text.
C8_Witness ==
  /\ Generated /\ last.trace.fell_back
  /\ ~last.trace.generated.raised
  /\ ParsedAnswer.kind = "error"

Greeting(response) == response.curriculum_questions[1].expected_response

\* C9: a fallback has two questions and one correction; its greeting is the
\* French one exactly for target language "French", the Spanish one exactly
\* for "Spanish", the generic one otherwise; its scene is the cafe scene
\* exactly when the lower-cased scenario is "cafe order", the hotel scene
\* exactly when it is "hotel check-in"; for "Cafe Order" and "French" the
\* scene contains "charming French café" and the greeting is "Bonjour,
\* monsieur/madame".
C9_FallbackContent ==
  (Generated /\ last.trace.fell_back) =>
    /\ last.status = 200
    /\ Len(last.body.curriculum_questions) = 2
    /\ Len(last.body.correction_examples) = 1
    /\ (Greeting(last.body) = "Bonjour, monsieur/madame")
         <=> (last.target_language = "French")
    /\ (Greeting(last.body) = "Hola, señor/señora")
         <=> (last.target_language = "Spanish")
    /\ (Greeting(last.body) = "Use appropriate greetings for the context and language level.")
         <=> (last.target_language \notin {"French", "Spanish"})
    /\ StartsWith(last.body.scenario_scene, "You are in a charming ")
         <=> (Lower(last.scenario) = "cafe order")
    /\ StartsWith(last.body.scenario_scene, "You are at the reception desk of a ")
         <=> (Lower(last.scenario) = "hotel check-in")
    /\ (last.scenario = "Cafe Order" /\ last.target_language = "French") =>
         /\ Contains(last.body.scenario_scene, "charming French café")
         /\ Greeting(last.body) = "Bonjour, monsieur/madame"

\* The generative call raised for "Cafe Order" in "French".
C9_Witness ==
  /\ Generated /\ last.trace.generated.raised
  /\ last.scenario = "Cafe Order" /\ last.target_language = "French"
  /\ Contains(last.body.scenario_scene, "charming French café")

\* C10: when the generative call fails for "Hotel Check-in" in "Spanish",
\* the request is answered (status 200) with the fallback whose second
\* question expects "Tengo una reserva"; the key is in neither cache, so
\* both contexts were computed on demand before the generative call.
C10_HotelSpanishFallback ==
  ( /\ Generated
    /\ last.scenario = "Hotel Check-in" /\ last.target_language = "Spanish"
    /\ last.trace.generate_calls >= 1
    /\ last.trace.generated.raised ) =>
    /\ last.status = 200
    /\ last.trace.fell_back
    /\ last.body.curriculum_questions[2].expected_response = "Tengo una reserva"
    /\ RequestKey \notin CacheKeySet(knowledge_cache) \cup CacheKeySet(real_world_cache)
    /\ last.trace.query_calls = 1
    /\ last.trace.real_world_calls = 1

\* The generative call raised for "Hotel Check-in" in "Spanish".
C10_Witness ==
  /\ Generated /\ last.status = 200
  /\ last.scenario = "Hotel Check-in" /\ last.target_language = "Spanish"
  /\ last.trace.generated.raised

\* The response in `last` answers a POST /generate-curriculum whose body has
\* an empty field.
EmptyField ==
  /\ last.endpoint = "/generate-curriculum"
  /\ (last.target_language = "" \/ last.scenario = "")

\* The request in `last` reached nothing behind the handler: no cache
\* lookup result, no retrieval call, no generative call.
NoDownstreamCall ==
  /\ last.trace = NoTrace
  /\ last.trace.query_calls = 0
  /\ last.trace.real_world_calls = 0
  /\ last.trace.generate_calls = 0

\* C11 as stated: a POST /generate-curriculum with an empty field is
\* answered with HTTP 400 whatever the other field is, before any downstream
\* call, in every state of the service.
C11_Original ==
  EmptyField => (last.status = 400 /\ NoDownstreamCall)

\* C11: while the generator is available, a POST /generate-curriculum whose
\* target_language is empty is answered with HTTP 400 for every scenario
\* value, and so is one whose scenario is empty, before any cache lookup,
\* retrieval call or generative call; while the generator is unavailable the
\* same request is answered with HTTP 503.
C11_EmptyFieldRejected ==
  EmptyField =>
    /\ NoDownstreamCall
    /\ (agent = "agent") => last.status = 400
    /\ (agent = "None") => last.status = 503

\* An available generator rejects an empty target_language sent with a
\* scenario that is not empty.
C11_Witness ==
  /\ agent = "agent"
  /\ last.endpoint = "/generate-curriculum"
  /\ last.target_language = "" /\ last.scenario = "Cafe Order"
  /\ last.status = 400

\* The response in `last` answers one of the three endpoints that need the
\* generator.
NeedsGenerator ==
  last.endpoint \in {"/available-scenarios", "/cache-stats", "/generate-curriculum"}

\* C12: while the generator is unavailable, GET /available-scenarios,
\* GET /cache-stats and POST /generate-curriculum answer HTTP 503 to every
\* request, a POST with an empty field included, and make no call on the
\* generator.
C12_UnavailableGives503 ==
  (agent = "None" /\ NeedsGenerator) =>
    /\ last.status = 503
    /\ last.body = Unavailable
    /\ NoDownstreamCall

\* The generator is unavailable and a POST with an empty target_language
\* was answered.
C12_Witness ==
  /\ agent = "None"
  /\ last.endpoint = "/generate-curriculum"
  /\ last.target_language = "" /\ last.scenario = "Cafe Order"
  /\ last.status = 503

\* The response in `last`, if it answers GET / or GET /health, has status
\* 200 and reports the availability of the generator as it is, with an empty
\* cache_stats when there is no generator.
HealthTruthful ==
  last.endpoint \in {"/", "/health"} =>
    /\ last.status = 200
    /\ last.body.agent_available = (agent = "agent")
    /\ (agent = "None") => last.body.cache_stats = EmptyDict
    /\ (agent = "agent") =>
         last.body.cache_stats = get_cache_stats(knowledge_cache, real_world_cache)

\* C13: a construction that fails is caught and the process goes on to
\* serve with no generator; from then on no step makes the generator
\* available, every GET / and GET /health is answered with status 200,
\* agent_available false and an empty cache_stats; and a generator that was
\* constructed never becomes unavailable.
C13_AvailabilityFixed ==
  [][ /\ (agent = "None") => (agent' = "None" /\ pc = "serving" /\ pc' = "serving")
      /\ (agent = "agent") => (agent' = "agent" /\ pc' = "serving")
      /\ (agent = "unbound" /\ agent' = "None") => (pc' = "serving")
      /\ HealthTruthful' ]_vars

\* Construction failed and GET /health was answered since.
C13_Witness ==
  /\ agent = "None" /\ constructions = 1
  /\ last.endpoint = "/health"
  /\ last.status = 200
  /\ last.body.agent_available = FALSE
  /\ last.body.cache_stats = EmptyDict

\* The cache statistics the response in `last` reports, if it reports any.
ReportedStats ==
  IF last.endpoint = "/cache-stats" /\ last.status = 200
    THEN {last.body}
  ELSE IF last.endpoint \in {"/", "/health"} /\ last.status = 200
          /\ last.body.agent_available
    THEN {last.body.cache_stats}
  ELSE {}

\* The hit rate is "100%" exactly when the knowledge cache has an entry,
\* "0%" exactly when it has none, and the sizes and the key list are those
\* of the caches: of what get_cache_stats returns in this state, and of
\* what a response reports.
StatsOfCaches ==
  /\ \A stats \in ReportedStats \cup {get_cache_stats(knowledge_cache, real_world_cache)} :
       /\ (stats.cache_hit_rate = "100%") <=> (Len(knowledge_cache) > 0)
       /\ (stats.cache_hit_rate = "0%") <=> (Len(knowledge_cache) = 0)
       /\ stats.knowledge_cache_size = Len(knowledge_cache)
       /\ stats.real_world_cache_size = Len(real_world_cache)
       /\ stats.cached_combinations = [i \in 1..Len(knowledge_cache) |-> knowledge_cache[i][1]]
  /\ \A stats \in ReportedStats : stats.cache_hit_rate = "100%"

\* C14: in every state get_cache_stats reports "100%" if the knowledge
\* cache has an entry and "0%" if it has none, with the sizes of the two
\* caches and the key list of the knowledge cache; and no step taken while
\* serving, a generate_curriculum request that hit or missed the caches
\* included, changes what it reports.
C14_HitRateConstant ==
  [][ /\ StatsOfCaches'
      /\ (pc = "serving") =>
           get_cache_stats(knowledge_cache, real_world_cache)'
             = get_cache_stats(knowledge_cache, real_world_cache) ]_vars

\* GET /cache-stats was answered by a generator whose start-up had a
\* failing call.
C14_Witness ==
  /\ last.endpoint = "/cache-stats" /\ last.status = 200
  /\ last.body.cache_hit_rate = "100%"
  /\ last.body.knowledge_cache_size = 6
  /\ Len(warnings) > 0

\* The record in `last` is that of a direct call of _get_real_world_data.
RealWorldCalled == last.endpoint = "_get_real_world_data"

\* The search fetch of the call failed: requests.get raised, or answered
\* with a status other than 200, or with an empty body.
FetchFailed ==
  /\ bright_data
  /\ RealWorldCalled
  /\ \/ last.body.search.raised
     \/ last.body.search.status_code # 200
     \/ last.body.search.text = ""

\* The outcomes of the structuring call on which the parse step fails: the
\* call raised, or its text is not JSON.
ParseFailures ==
  { g \in generate_structuring :
      g.raised \/ json_loads(StripCodeFence(g.value)).kind = "error" }

\* The fetch of the call succeeded and its structuring or parse step failed.
ParseFailed ==
  /\ bright_data
  /\ RealWorldCalled
  /\ ~FetchFailed
  /\ last.body.structuring \in ParseFailures

\* The three fields of a text block are all "N/A".
AllNotAvailable(text) ==
  /\ Contains(text, "Menu/Terms: N/A\n")
  /\ Contains(text, "Common Phrases: N/A\n")
  /\ Contains(text, "Cultural Notes: N/A\n")

\* The pairs of the direct calls that the mock table has an entry for.
MockPairs ==
  { p \in RealWorldScenarios \X RealWorldLanguages :
      LET scenario_key == Replace(Lower(p[1]), " ", "_")
      IN /\ scenario_key \in DOMAIN real_world_data
         /\ p[2] \in DOMAIN real_world_data[scenario_key] }

InMockTable == << last.scenario, last.target_language >> \in MockPairs

\* C15 as stated: under the flag a failed fetch or a failed parse gives the
\* block whose three fields are "N/A" and no exception, and without the
\* flag so does a pair missing from the mock table.
C15_Original ==
  RealWorldCalled =>
    /\ (FetchFailed \/ ParseFailed) =>
         (~last.body.raised /\ AllNotAvailable(last.body.value))
    /\ (~bright_data /\ ~InMockTable) =>
         (~last.body.raised /\ AllNotAvailable(last.body.value))

\* C15: under the flag, a failed fetch raises nothing and gives the block of
\* the mock table for the pair, whose three fields are all "N/A" only if the
\* pair is missing from the table; a failed structuring or parse step after
\* a successful fetch raises nothing and gives the block whose three fields
\* are "N/A"; without the flag a pair missing from the mock table gives
\* "N/A" for the three fields.
C15_FailureGivesMockOrNotAvailable ==
  RealWorldCalled =>
    /\ FetchFailed =>
         /\ ~last.body.raised
         /\ last.body.value = MockRealWorld(last.scenario, last.target_language)
         /\ AllNotAvailable(last.body.value) <=> ~InMockTable
    /\ ParseFailed =>
         (~last.body.raised /\ AllNotAvailable(last.body.value))
    /\ (~bright_data /\ ~InMockTable) =>
         (~last.body.raised /\ AllNotAvailable(last.body.value))

\* Under the flag the search request raised for "Cafe Order" in "French"
\* and the call returned the menu of the mock table.
C15_Witness ==
  /\ FetchFailed
  /\ last.body.search.raised
  /\ last.scenario = "Cafe Order" /\ last.target_language = "French"
  /\ Contains(last.body.value, "Menu/Terms: Café au lait")

PassedChecks ==
  /\ last.endpoint = "/generate-curriculum"
  /\ agent = "agent"
  /\ last.scenario # "" /\ last.target_language # ""

\* The generative model answered with a curriculum that has the three
\* fields and an item of which lacks a key the handler reads.
UnconvertibleAnswer ==
  /\ last.trace.generate_calls >= 1
  /\ ~last.trace.generated.raised
  /\ LET parsed == ParsedAnswer
     IN /\ parsed.kind = "dict"
        /\ RequiredFields \subseteq DOMAIN parsed.fields
        /\ ~Convertible(parsed.fields)

\* C17: a POST /generate-curriculum that passed both checks is answered
\* with 200 and a curriculum, the model's or the fallback, or with 500 and
\* nothing else; an exception of the on-demand resolution of the knowledge
\* or the real-world context is answered with 500, before any generative
\* call and without the fallback, and so is a model curriculum an item of
\* which lacks a required key.
C17_TwoOutcomes ==
  PassedChecks =>
    /\ last.status \in {200, 500}
    /\ (last.status = 200) <=> (last.trace.failure = "none" /\ ~UnconvertibleAnswer)
    /\ (last.status = 200) =>
         /\ DOMAIN last.body = RequiredFields
         /\ last.trace.fell_back =>
              /\ last.trace.generate_calls = 1
              /\ Len(last.body.curriculum_questions) = 2
              /\ Len(last.body.correction_examples) = 1
         /\ ~last.trace.fell_back =>
              last.body = [f \in RequiredFields |-> ParsedAnswer.fields[f]]
    /\ (last.status = 500) =>
         last.body = [detail |-> "Error generating curriculum"]
    /\ (last.trace.failure = "knowledge") =>
         /\ last.status = 500
         /\ CachedKnowledge = "" /\ last.trace.query_calls = 1
         /\ last.trace.generate_calls = 0 /\ ~last.trace.fell_back
    /\ (last.trace.failure = "real_world") =>
         /\ last.status = 500
         /\ CachedRealWorld = "" /\ last.trace.real_world_calls = 1
         /\ last.trace.generate_calls = 0 /\ ~last.trace.fell_back
    /\ UnconvertibleAnswer =>
         (last.status = 500 /\ ~last.trace.fell_back)

\* The model's curriculum had a question without expected_response and the
\* request was answered with 500.
C17_Witness ==
  /\ PassedChecks
  /\ UnconvertibleAnswer
  /\ last.status = 500

\* The on-demand real-world call of a request raised and the request was
\* answered with 500.
C17_WitnessContext ==
  /\ PassedChecks
  /\ last.trace.failure = "real_world"
  /\ last.status = 500

====
